---- MODULE Spec2Model ----
(***************************************************************************)
(* State-machine model of TwicketsClient (src/main.py): the control loop   *)
(* run(), the connection and session helpers it calls, and the ledger of   *)
(* notified listing ids kept in notified_ids.json.                         *)
(*                                                                         *)
(* Time is the wall clock in seconds since midnight of day 0.  It is       *)
(* sampled at the instants TimePoints: time.sleep(d) returns at the first   *)
(* sampled instant that lies at least d seconds after the sleep began (a    *)
(* sleep may last longer than asked, never shorter); other statements take  *)
(* no time.                                                                 *)
(* An exception is modelled by its class and the call of run() it arose in  *)
(* and is routed to the except clause Python selects.                       *)
(***************************************************************************)
EXTENDS Integers, Sequences, FiniteSets, TLC

\* ---------------------------------------------------------------- bounds
\* Largest number of missing environment variables explored.
MaxMissing == 1
\* The wall clock is unbounded; the last day on which it is read.
MaxDay == 1
\* Longest list of listings one poll returns.
MaxItems == 2
\* Calls of _ensure_connection per run in which connect() fails with a
\* transport error the handler recovers from (in such a call every retry
\* may fail again).
MaxFaultyCalls == 1

\* ----------------------------------------------------- program constants
MIN_TIME == 15
MAX_TIME == 30
MAX_RETRIES == 5
BASE_DELAY == 60
AUTH_MIN_TIME == 180
AUTH_MAX_TIME == 360
QUIET_START_HOUR == 22
QUIET_END_HOUR == 8
DAY_SECONDS == 86400
HOUR_SECONDS == 3600

REQUIRED_ENV_VARIABLES ==
    << "TWICKETS_API_KEY", "TWICKETS_EMAIL", "TWICKETS_PASSWORD",
       "TWICKETS_CLIENT_ID", "TWICKETS_EVENT_ID", "PROWL_API_KEY" >>

\* ------------------------------------------------------------- utilities
\* Listing ids the remote service and the ledger may mention.
Ids == { "A", "B" }

Range(s) == { s[i] : i \in 1..Len(s) }

\* Sequences over S without repetition that enumerate exactly S.
Orderings(S) ==
    { s \in [1..Cardinality(S) -> S] : Range(s) = S }

RECURSIVE Pow2(_)
Pow2(n) == IF n <= 0 THEN 1 ELSE 2 * Pow2(n - 1)

\* datetime fields of a clock value
DayOf(t) == t \div DAY_SECONDS
HourOf(t) == (t % DAY_SECONDS) \div HOUR_SECONDS

\* ----------------------------------------------------------- ledger file
\* Content of notified_ids.json as json.load sees it:
\*   absent   no file
\*   invalid  bytes that are not JSON (json.JSONDecodeError)
\*   scalar   valid JSON that is not iterable (null, a number, true)
\*   array    a JSON array of strings; elems are its items
FileAbsent == [kind |-> "absent", elems |-> << >>]
FileInvalid == [kind |-> "invalid", elems |-> << >>]
FileScalar == [kind |-> "scalar", elems |-> << >>]
FileArray(s) == [kind |-> "array", elems |-> s]

\* json.dump(list(notified_ids), f): the array lists the set in some order.
save_notified_ids(ids) == { FileArray(s) : s \in Orderings(ids) }

\* a loader that treats every file as unreadable and starts from nothing
load_notified_ids_always_empty(f) == [raises |-> "none", value |-> {}]

\* load_notified_ids: the exception it raises ("none" when it returns) and
\* the set it returns.
load_notified_ids(f) ==
    CASE f.kind = "absent"  -> [raises |-> "none", value |-> {}]
      [] f.kind = "invalid" -> [raises |-> "none", value |-> {}]
      [] f.kind = "scalar"  -> [raises |-> "TypeError", value |-> {}]
      [] OTHER              -> [raises |-> "none", value |-> Range(f.elems)]

\* Files a run can find at startup.
InitialFiles ==
    { FileAbsent, FileInvalid, FileScalar }
      \cup UNION { save_notified_ids(S) : S \in { {}, { "A" } } }

\* ------------------------------------------------------------ environment
\* check_env_variables: the missing keys, in the order of the list.
missing_env_variables(unset) ==
    SelectSeq(REQUIRED_ENV_VARIABLES, LAMBDA k : k \in unset)

InitialUnset ==
    { U \in SUBSET Range(REQUIRED_ENV_VARIABLES) : Cardinality(U) <= MaxMissing }


\* ------------------------------------------------------- remote service
\* A compound listing id is the sequence str(id).split('@') yields:
\* << "blk", "A" >> is "blk@A", << "A" >> is an id without separator.
ListingIds == { << "blk", i >> : i \in Ids }
CompoundIds == ListingIds \cup { << "A" >> }

\* responseData of the inventory endpoint.  shape "list": elems are the id
\* fields of the listing records.  shape "mapping": a JSON object; elems
\* are its keys (each a one-part sequence) and id is the value under 'id'
\* (<< >> when the object has no such key).  shape "null": no responseData.
ListItems(s) == [shape |-> "list", elems |-> s, id |-> << >>]
MappingItems(keys, v) == [shape |-> "mapping", elems |-> keys, id |-> v]
NullItems == [shape |-> "null", elems |-> << >>, id |-> << >>]
EmptyItems == ListItems(<< >>)

ListResponses ==
    { ListItems(s) : s \in UNION { [1..n -> ListingIds] : n \in 0..MaxItems } }

MappingResponses ==
    { MappingItems(<< << "id" >>, << "amount" >> >>, c) : c \in CompoundIds }

ResponseData == ListResponses \cup MappingResponses \cup { NullItems }

\* bool(items) as the statement "if items:" evaluates it
Truthy(it) == it.shape # "null" /\ Len(it.elems) > 0

\* What one GET of the inventory endpoint can produce.
PollOutcomes == { "ok", "not200", "notready", "httpexception", "oserror" }

\* Login responses: HTTP status, top-level keys of the envelope, token.
AuthKeys == { "responseData", "responseCode", "description", "clock" }
AuthResponses ==
    { [status |-> 200, keys |-> AuthKeys, responseData |-> "tok"],
      [status |-> 200, keys |-> AuthKeys, responseData |-> "None"],
      [status |-> 200, keys |-> AuthKeys \ { "clock" }, responseData |-> "tok"],
      [status |-> 403, keys |-> {}, responseData |-> "None"] }

validate_auth_response(response) ==
    IF AuthKeys \subseteq response.keys THEN response.responseData ELSE "None"

\* the value authenticate() returns for a response that arrived
authenticate(response) ==
    IF response.status = 200 THEN validate_auth_response(response) ELSE "None"

\* Base classes of helpers.NotTwoHundredStatusError: an ordinary exception,
\* which the except clauses of lines 147 and 150 do not catch.
NotTwoHundredStatusErrorBases == { "Exception" }

\* The calls of run() in which an exception can arise; "run" stands for the
\* statements of run() itself.
Sites == { "load_notified_ids", "check_env_variables", "authenticate",
           "check_event_availability", "send_notification", "run" }

NoException == [class |-> "none", raised_in |-> "run"]
Exception(c, site) == [class |-> c, raised_in |-> site]

\* Outcomes of ProwlNoticationsClient.send_notification (helpers module).
NotifierOutcomes == { "sent", "raises" }

ListingMessage(i) == [kind |-> "listing", id |-> i]
GiveUpMessage == [kind |-> "giveup", id |-> "-"]
ErrorMessage == [kind |-> "error", id |-> "-"]

\* ------------------------------------------------------------ scheduling
\* round(random.uniform(lo, hi)) explored at the two ends of the interval
Draws(lo, hi) == { lo, hi }

\* a window test with the two hour comparisons joined by "and"
InQuietWindow_conjunctive(t) ==
    HourOf(t) >= QUIET_START_HOUR /\ HourOf(t) < QUIET_END_HOUR

\* lines 170-171: now.hour >= 22 or now.hour < 8
InQuietWindow(t) == HourOf(t) >= QUIET_START_HOUR \/ HourOf(t) < QUIET_END_HOUR

\* wake_time: 08:00:00 of the day after t
wake_time(t) == (DayOf(t) + 1) * DAY_SECONDS + QUIET_END_HOUR * HOUR_SECONDS

sleep_duration(t) == wake_time(t) - t

\* an interval that grows linearly with the failures instead of doubling
backoff_interval_linear(base, n) == base * (n + 1)

\* SLEEP_INTERVAL of the non-200 handler
backoff_interval(base, n) == base * Pow2(n)

\* the delay _ensure_connection sleeps after its retries counter became r
connect_delay(r) == BASE_DELAY * Pow2(r)

\* a test that lets twice the cap pass
give_up_beyond_twice_the_cap(n) == n > 2 * MAX_RETRIES

\* line 203: if attempts > self.MAX_RETRIES
give_up(n) == n > MAX_RETRIES

\* Times of day at which the clock is sampled: 03:00:00, 08:00:00,
\* 12:00:00, 16:00:00, 21:59:59 and 23:00:00.
DayTimes ==
    { 21 * HOUR_SECONDS + 3599 }
      \cup { h * HOUR_SECONDS : h \in { 3, 8, 12, 16, 23 } }

TimePoints == { d * DAY_SECONDS + s : d \in 0..MaxDay, s \in DayTimes }

\* Clock readings at which a run may start.
StartTimes == { 3 * HOUR_SECONDS, 8 * HOUR_SECONDS }

\* the instants at which a sleep of d seconds begun at t may return: the
\* first sampled instant not before t + d
SleepEnds(t, d) ==
    { p \in TimePoints : p >= t + d /\ \A q \in TimePoints : q >= t + d => p <= q }

\* ------------------------------------------------------------------ state
VARIABLES
    pc,              \* position of the process in run() and its callees
    caller,          \* the caller of _ensure_connection while it runs, else "-"
    retries,         \* local retries of _ensure_connection
    sock,            \* self.conn.sock: "none" or "open"
    faultyCalls,     \* calls of _ensure_connection that met a transport error
    reopened,        \* the connect() that just returned replaced an open socket
    unset,           \* required environment variables that are not set
    reported,        \* names logged by check_env_variables, in order
    file,            \* content of notified_ids.json
    ids_bound,       \* whether the local notified_ids has been assigned
    notified_ids,    \* local notified_ids of run()
    token,           \* local token of run()
    count,           \* local count of run()
    attempts,        \* local attempts of run()
    now,             \* local now of run(): the clock read at line 169
    time_delay,      \* local time_delay
    auth_time_delay, \* local auth_time_delay
    items,           \* local items
    idx,             \* position of the for loop over items
    id,              \* local id
    polled,          \* whether this iteration's poll returned without raising
    idsAtPoll,       \* notified_ids when this iteration's poll returned
    fileAtPoll,      \* file when this iteration's poll returned
    sentAtPoll,      \* Len(sent) when this iteration's poll returned
    clock,           \* the wall clock
    lastSleep,       \* the sleep that has just returned: kind and seconds asked
    sent,            \* notifications delivered so far, in order
    exc,             \* the exception being handled or that ended the process
    exit_code,       \* -1 while running, else the exit status of the process
    exit_path        \* how the process ended

connVars == << caller, retries, sock, faultyCalls, reopened >>
envVars == << unset, reported >>
ledgerVars == << file, ids_bound, notified_ids >>
counterVars == << token, count, attempts >>
cycleVars == << now, time_delay, auth_time_delay, items, idx, id, polled,
                idsAtPoll, fileAtPoll, sentAtPoll >>
timeVars == << clock, lastSleep >>
exitVars == << exit_code, exit_path >>

vars == << pc, caller, retries, sock, faultyCalls, reopened, unset, reported, file,
           ids_bound, notified_ids, token, count, attempts, now, time_delay,
           auth_time_delay, items, idx, id, polled, idsAtPoll, fileAtPoll,
           sentAtPoll, clock, lastSleep, sent, exc, exit_code, exit_path >>

NoSleep == [kind |-> "none", secs |-> 0]
Sleep(k, d) == [kind |-> k, secs |-> d]

\* The state when run() is entered.  Locals not yet assigned hold fixed
\* values; attempts already holds the 0 that line 167 assigns before its
\* first use.
Init ==
    /\ pc = "load"
    /\ caller = "-"
    /\ retries = 0
    /\ sock = "none"
    /\ faultyCalls = 0
    /\ reopened = FALSE
    /\ unset \in InitialUnset
    /\ reported = << >>
    /\ file \in InitialFiles
    /\ ids_bound = FALSE
    /\ notified_ids = {}
    /\ token = "None"
    /\ count = 0
    /\ attempts = 0
    /\ now = 0
    /\ time_delay = 0
    /\ auth_time_delay = 0
    /\ items = EmptyItems
    /\ idx = 0
    /\ id = "-"
    /\ polled = FALSE
    /\ idsAtPoll = {}
    /\ fileAtPoll = FileAbsent
    /\ sentAtPoll = 0
    /\ clock \in StartTimes
    /\ lastSleep = NoSleep
    /\ sent = << >>
    /\ exc = NoException
    /\ exit_code = -1
    /\ exit_path = "running"

\* Positions inside the try block of run(), where the except clauses of
\* lines 218 and 223 apply.
BodyPcs == { "load", "checkenv", "ensure", "auth_startup", "auth_retry",
             "loop_top", "poll_request", "item_loop", "notify", "add", "save",
             "cycle_sleep", "not200", "giveup_save", "giveup_notify",
             "giveup_exit", "backoff_close", "backoff_sleep", "backoff_inc" }

\* An exception of a subclass of Exception leaves the try block of run():
\* Python enters the clause of line 223.
Raise(c, site) ==
    /\ exc' = Exception(c, site)
    /\ pc' = "except_exc"
    /\ UNCHANGED exitVars

\* An exception leaves run(): nothing catches it, the process ends with a
\* traceback and status 1.
Uncaught(c, site) ==
    /\ exc' = Exception(c, site)
    /\ pc' = "done"
    /\ exit_code' = 1
    /\ exit_path' = "uncaught"

\* run() returns and the interpreter exits normally.
Return(path) ==
    /\ pc' = "done"
    /\ exit_code' = 0
    /\ exit_path' = path

\* Values of the locals of one loop iteration that are dead when the
\* iteration is over: each is assigned again before it is next read
\* (now 169, time_delay 180, auth_time_delay 181, items 185/202, id 192).
\* The model forgets them there.
ForgetCycleLocals ==
    /\ now' = 0
    /\ time_delay' = 0
    /\ auth_time_delay' = 0
    /\ items' = EmptyItems
    /\ idx' = 0
    /\ id' = "-"
    /\ polled' = FALSE
    /\ idsAtPoll' = {}
    /\ fileAtPoll' = FileAbsent
    /\ sentAtPoll' = 0

\* ---------------------------------------------------------------- startup
\* lines 158-159: count = 1; notified_ids = self.load_notified_ids()
Load ==
    /\ pc = "load"
    /\ count' = 1
    /\ LET r == load_notified_ids(file) IN
         IF r.raises = "none"
           THEN /\ notified_ids' = r.value
                /\ ids_bound' = TRUE
                /\ pc' = "checkenv"
                /\ UNCHANGED << exc, exitVars >>
           ELSE /\ Raise(r.raises, "load_notified_ids")
                /\ UNCHANGED << notified_ids, ids_bound >>
    /\ UNCHANGED << connVars, envVars, file, token, attempts, cycleVars,
                    timeVars, sent >>

\* line 160: self.check_env_variables()
CheckEnv ==
    /\ pc = "checkenv"
    /\ LET missing == missing_env_variables(unset) IN
         IF Len(missing) > 0
           THEN /\ reported' = missing
                /\ Raise("RuntimeError", "check_env_variables")
                /\ UNCHANGED << caller, retries >>
           ELSE /\ pc' = "ensure"
                /\ caller' = "authenticate_startup"
                /\ retries' = 0
                /\ UNCHANGED << reported, exc, exitVars >>
    /\ UNCHANGED << sock, faultyCalls, reopened, unset, ledgerVars, counterVars,
                    cycleVars, timeVars, sent >>

\* ---------------------------------------------------- _ensure_connection
\* Where _ensure_connection returns to.
AfterEnsure ==
    CASE caller = "check_event_availability" -> "poll_request"
      [] caller = "authenticate_startup"     -> "auth_startup"
      [] OTHER                               -> "auth_retry"

\* the call of run() that _ensure_connection is running for
EnsureSite ==
    IF caller = "check_event_availability"
      THEN "check_event_availability" ELSE "authenticate"

\* line 74 false, line 89: the retries are used up; log and return
EnsureExhausted ==
    /\ pc = "ensure"
    /\ ~(retries < MAX_RETRIES)
    /\ pc' = AfterEnsure
    /\ retries' = 0
    /\ caller' = "-"
    /\ lastSleep' = NoSleep
    /\ UNCHANGED << sock, faultyCalls, reopened, envVars, ledgerVars, counterVars,
                    cycleVars, clock, sent, exc, exitVars >>

\* lines 76-79: connect() succeeds; return
ConnectOk ==
    /\ pc = "ensure"
    /\ retries < MAX_RETRIES
    /\ sock' = "open"
    /\ reopened' = (sock = "open")
    /\ pc' = AfterEnsure
    /\ retries' = 0
    /\ caller' = "-"
    /\ lastSleep' = NoSleep
    /\ UNCHANGED << faultyCalls, envVars, ledgerVars, counterVars, cycleVars,
                    clock, sent, exc, exitVars >>

\* lines 80-81: connect() raises socket.gaierror; the f-string of the
\* warning reads the global BASE_DELAY, which does not exist: NameError
ConnectDnsFail ==
    /\ pc = "ensure"
    /\ retries < MAX_RETRIES
    /\ Raise("NameError", EnsureSite)
    /\ UNCHANGED << connVars, envVars, ledgerVars, counterVars, cycleVars,
                    timeVars, sent >>

\* lines 82-88: connect() raises HTTPException or OSError; the handler
\* closes, builds a new connection and connects again inside the handler.
\* If that connect succeeds the loop sleeps and goes round again, else its
\* exception leaves _ensure_connection.
ConnectError ==
    /\ pc = "ensure"
    /\ retries < MAX_RETRIES
    /\ retries = 0 => faultyCalls < MaxFaultyCalls
    /\ faultyCalls' = IF retries = 0 THEN faultyCalls + 1 ELSE faultyCalls
    /\ reopened' = FALSE
    /\ \E second \in { "ok", "OSError" } :
         IF second = "ok"
           THEN /\ sock' = "open"
                /\ retries' = retries + 1
                /\ clock' \in SleepEnds(clock, connect_delay(retries'))
                /\ lastSleep' = Sleep("connect", connect_delay(retries'))
                /\ UNCHANGED << pc, caller, exc, exitVars >>
           ELSE /\ sock' = "none"
                /\ Raise(second, EnsureSite)
                /\ UNCHANGED << caller, retries, timeVars >>
    /\ UNCHANGED << envVars, ledgerVars, counterVars, cycleVars, sent >>

\* ------------------------------------------------------------ authenticate
\* a login whose caller goes on to the loop without testing the token
AuthRequestAt_unchecked(here) ==
    /\ pc = here
    /\ \/ /\ Raise("OSError", "authenticate")
          /\ UNCHANGED << token, cycleVars >>
       \/ \E response \in AuthResponses :
            /\ token' = authenticate(response)
            /\ pc' = "loop_top"
            /\ ForgetCycleLocals
            /\ exc' = NoException
            /\ UNCHANGED exitVars
    /\ reopened' = FALSE
    /\ UNCHANGED << caller, retries, sock, faultyCalls, envVars, ledgerVars,
                    count, attempts, timeVars, sent >>

\* lines 112-127 of authenticate() after _ensure_connection returned, and
\* the caller's test of the token: the login request either raises or
\* yields a response.
AuthRequestAt(here) ==
    /\ pc = here
    /\ \/ /\ Raise("OSError", "authenticate")
          /\ UNCHANGED << token, cycleVars >>
       \/ \E response \in AuthResponses :
            /\ token' = authenticate(response)
            /\ IF token' = "None"
                 THEN /\ Raise("RuntimeError", "run")
                      /\ UNCHANGED cycleVars
                 ELSE /\ pc' = "loop_top"
                      /\ ForgetCycleLocals
                      /\ exc' = NoException
                      /\ UNCHANGED exitVars
    /\ reopened' = FALSE
    /\ UNCHANGED << caller, retries, sock, faultyCalls, envVars, ledgerVars,
                    count, attempts, timeVars, sent >>

\* lines 162-167: the startup authentication
AuthStartup == AuthRequestAt("auth_startup")

\* lines 215-217: the re-authentication of the non-200 handler
AuthRetry == AuthRequestAt("auth_retry")

\* --------------------------------------------------------------- the loop
\* lines 169-178: the iteration starts in the quiet window; sleep until
\* wake_time, reset count and restart the iteration
QuietSleep ==
    /\ pc = "loop_top"
    /\ now' = clock
    /\ InQuietWindow(now')
    /\ clock' \in SleepEnds(now', sleep_duration(now'))
    /\ lastSleep' = Sleep("quiet", sleep_duration(now'))
    /\ count' = 1
    /\ UNCHANGED << pc, connVars, envVars, ledgerVars, token, attempts,
                    time_delay, auth_time_delay, items, idx, id, polled,
                    idsAtPoll, fileAtPoll, sentAtPoll, sent, exc, exitVars >>

\* lines 169-185: outside the quiet window; draw the two delays and enter
\* check_event_availability, which first calls _ensure_connection
StartCycle ==
    /\ pc = "loop_top"
    /\ now' = clock
    /\ ~InQuietWindow(now')
    /\ time_delay' \in Draws(MIN_TIME, MAX_TIME)
    /\ auth_time_delay' \in Draws(AUTH_MIN_TIME, AUTH_MAX_TIME)
    /\ pc' = "ensure"
    /\ caller' = "check_event_availability"
    /\ retries' = 0
    /\ lastSleep' = NoSleep
    /\ UNCHANGED << sock, faultyCalls, reopened, envVars, ledgerVars, counterVars, items,
                    idx, id, polled, idsAtPoll, fileAtPoll, sentAtPoll, clock,
                    sent, exc, exitVars >>

\* lines 187-190: check_event_availability returned v
PollReturned(v) ==
    /\ items' = v
    /\ attempts' = 0
    /\ count' = count + 1
    /\ idx' = 1
    /\ pc' = IF Truthy(v) THEN "item_loop" ELSE "cycle_sleep"
    /\ polled' = TRUE
    /\ idsAtPoll' = notified_ids
    /\ fileAtPoll' = file
    /\ sentAtPoll' = Len(sent)
    /\ UNCHANGED << exc, exitVars >>

\* an exception leaves check_event_availability
PollRaised(c) ==
    /\ Raise(c, "check_event_availability")
    /\ UNCHANGED << sock, items, idx, count, attempts, polled, idsAtPoll,
                    fileAtPoll, sentAtPoll >>

\* lines 133-152: the GET request of check_event_availability
PollRequest ==
    /\ pc = "poll_request"
    /\ IF sock = "none"
         THEN /\ PollReturned(EmptyItems)
              /\ UNCHANGED sock
         ELSE \E outcome \in PollOutcomes :
                CASE outcome = "ok" ->
                       \E data \in ResponseData :
                         IF data.shape = "null"
                           THEN PollRaised("TypeError")
                           ELSE /\ PollReturned(data)
                                /\ UNCHANGED sock
                  [] outcome = "not200" ->
                       IF "HTTPException" \in NotTwoHundredStatusErrorBases
                         THEN /\ sock' = "none"
                              /\ PollReturned(EmptyItems)
                         ELSE /\ pc' = "not200"
                              /\ exc' = Exception("NotTwoHundredStatusError",
                                                  "check_event_availability")
                              /\ UNCHANGED << sock, items, idx, count, attempts,
                                              polled, idsAtPoll, fileAtPoll,
                                              sentAtPoll, exitVars >>
                  [] outcome = "notready" ->
                       /\ PollReturned(EmptyItems)
                       /\ UNCHANGED sock
                  [] outcome = "httpexception" ->
                       /\ sock' = "none"
                       /\ PollReturned(EmptyItems)
                  [] OTHER -> PollRaised("OSError")
    /\ reopened' = FALSE
    /\ UNCHANGED << caller, retries, faultyCalls, envVars, ledgerVars, token,
                    now, time_delay, auth_time_delay, id, timeVars, sent >>

\* where the for loop of line 191 goes when its position becomes i
NextItemPc(i) == IF i > Len(items.elems) THEN "cycle_sleep" ELSE "item_loop"

\* str(items['id']).split('@')[1] of line 192: the exception it raises
\* ("none" when it yields a value) and the value
extract_id(it) ==
    CASE it.shape = "list"  -> [raises |-> "TypeError", value |-> "-"]
      [] Len(it.id) < 2     -> [raises |-> "IndexError", value |-> "-"]
      [] OTHER              -> [raises |-> "none", value |-> it.id[2]]

\* lines 191-193: one round of the for loop up to the membership test
ItemStep ==
    /\ pc = "item_loop"
    /\ LET r == extract_id(items) IN
         IF r.raises # "none"
           THEN /\ Raise(r.raises, "run")
                /\ UNCHANGED << id, idx >>
           ELSE /\ id' = r.value
                /\ IF r.value \notin notified_ids
                     THEN /\ pc' = "notify"
                          /\ UNCHANGED idx
                     ELSE /\ idx' = idx + 1
                          /\ pc' = NextItemPc(idx')
                /\ UNCHANGED << exc, exitVars >>
    /\ UNCHANGED << connVars, envVars, ledgerVars, counterVars, now, time_delay,
                    auth_time_delay, items, polled, idsAtPoll, fileAtPoll,
                    sentAtPoll, timeVars, sent >>

\* lines 194-195: self.prowl.send_notification(f"Check {url}")
Notify ==
    /\ pc = "notify"
    /\ \E outcome \in NotifierOutcomes :
         IF outcome = "sent"
           THEN /\ sent' = Append(sent, ListingMessage(id))
                /\ pc' = "add"
                /\ UNCHANGED << exc, exitVars >>
           ELSE /\ Raise("NotifierError", "send_notification")
                /\ UNCHANGED sent
    /\ UNCHANGED << connVars, envVars, ledgerVars, counterVars, cycleVars,
                    timeVars >>

\* line 196: notified_ids.add(id)
AddId ==
    /\ pc = "add"
    /\ notified_ids' = notified_ids \cup { id }
    /\ pc' = "save"
    /\ UNCHANGED << connVars, envVars, file, ids_bound, counterVars, cycleVars,
                    timeVars, sent, exc, exitVars >>

\* the next round taken without writing the file
SaveIds_skipped ==
    /\ pc = "save"
    /\ idx' = idx + 1
    /\ pc' = NextItemPc(idx')
    /\ UNCHANGED << connVars, envVars, ledgerVars, counterVars,
                    now, time_delay, auth_time_delay, items, id, polled,
                    idsAtPoll, fileAtPoll, sentAtPoll, timeVars, sent, exc,
                    exitVars >>

\* line 197: self.save_notified_ids(notified_ids), then the next round
SaveIds ==
    /\ pc = "save"
    /\ file' \in save_notified_ids(notified_ids)
    /\ idx' = idx + 1
    /\ pc' = NextItemPc(idx')
    /\ UNCHANGED << connVars, envVars, ids_bound, notified_ids, counterVars,
                    now, time_delay, auth_time_delay, items, id, polled,
                    idsAtPoll, fileAtPoll, sentAtPoll, timeVars, sent, exc,
                    exitVars >>

\* lines 198-199: SLEEP_INTERVAL = time_delay + backoff, backoff being 0
CycleSleep ==
    /\ pc = "cycle_sleep"
    /\ clock' \in SleepEnds(clock, time_delay)
    /\ lastSleep' = Sleep("cycle", time_delay)
    /\ pc' = "loop_top"
    /\ ForgetCycleLocals
    /\ UNCHANGED << connVars, envVars, ledgerVars, counterVars, sent, exc,
                    exitVars >>

\* ------------------------------------------------ the non-200 handler
\* lines 200-203: items = None and the test of attempts
Not200 ==
    /\ pc = "not200"
    /\ items' = NullItems
    /\ pc' = IF give_up(attempts) THEN "giveup_save" ELSE "backoff_close"
    /\ UNCHANGED << connVars, envVars, ledgerVars, counterVars, now, time_delay,
                    auth_time_delay, idx, id, polled, idsAtPoll, fileAtPoll,
                    sentAtPoll, timeVars, sent, exc, exitVars >>

\* line 205
GiveUpSave ==
    /\ pc = "giveup_save"
    /\ file' \in save_notified_ids(notified_ids)
    /\ pc' = "giveup_notify"
    /\ UNCHANGED << connVars, envVars, ids_bound, notified_ids, counterVars,
                    cycleVars, timeVars, sent, exc, exitVars >>

\* lines 206-207
GiveUpNotify ==
    /\ pc = "giveup_notify"
    /\ \E outcome \in NotifierOutcomes :
         IF outcome = "sent"
           THEN /\ sent' = Append(sent, GiveUpMessage)
                /\ pc' = "giveup_exit"
                /\ UNCHANGED << exc, exitVars >>
           ELSE /\ Raise("NotifierError", "send_notification")
                /\ UNCHANGED sent
    /\ UNCHANGED << connVars, envVars, ledgerVars, counterVars, cycleVars,
                    timeVars >>

\* line 208: sys.exit(exit_error_message); SystemExit is no Exception, so
\* no clause of run() catches it and the process ends with status 1
GiveUpExit ==
    /\ pc = "giveup_exit"
    /\ exc' = Exception("SystemExit", "run")
    /\ pc' = "done"
    /\ exit_code' = 1
    /\ exit_path' = "giveup"
    /\ UNCHANGED << connVars, envVars, ledgerVars, counterVars, cycleVars,
                    timeVars, sent >>

\* lines 209-212: SLEEP_INTERVAL is computed and the connection closed
BackoffClose ==
    /\ pc = "backoff_close"
    /\ sock' = "none"
    /\ pc' = "backoff_sleep"
    /\ UNCHANGED << caller, retries, faultyCalls, reopened, envVars,
                    ledgerVars, counterVars, cycleVars, timeVars, sent, exc,
                    exitVars >>

\* line 213: sleep(SLEEP_INTERVAL)
BackoffSleep ==
    /\ pc = "backoff_sleep"
    /\ clock' \in SleepEnds(clock, backoff_interval(auth_time_delay, attempts))
    /\ lastSleep' = Sleep("backoff", backoff_interval(auth_time_delay, attempts))
    /\ pc' = "backoff_inc"
    /\ UNCHANGED << connVars, envVars, ledgerVars, counterVars, cycleVars, sent,
                    exc, exitVars >>

\* lines 214-215: attempts += 1, then authenticate() begins
BackoffInc ==
    /\ pc = "backoff_inc"
    /\ attempts' = attempts + 1
    /\ pc' = "ensure"
    /\ caller' = "authenticate_retry"
    /\ retries' = 0
    /\ lastSleep' = NoSleep
    /\ UNCHANGED << sock, faultyCalls, reopened, envVars, ledgerVars, token, count,
                    cycleVars, clock, sent, exc, exitVars >>

\* ------------------------------------------------------ outer handlers
\* Ctrl-C while the try block of run() executes, and the clause of lines
\* 218-222: close the connection, save the ledger; run() returns
Interrupt ==
    /\ pc \in BodyPcs
    /\ sock' = "none"
    /\ IF ids_bound
         THEN /\ file' \in save_notified_ids(notified_ids)
              /\ exc' = Exception("KeyboardInterrupt", "run")
              /\ Return("interrupt")
         ELSE /\ Uncaught("UnboundLocalError", "run")
              /\ UNCHANGED file
    /\ reopened' = FALSE
    /\ UNCHANGED << caller, retries, faultyCalls, envVars, ids_bound,
                    notified_ids, counterVars, cycleVars, timeVars, sent >>

\* lines 223-227: save the ledger, log, notify; run() returns
HandleException ==
    /\ pc = "except_exc"
    /\ IF ids_bound
         THEN /\ file' \in save_notified_ids(notified_ids)
              /\ \E outcome \in NotifierOutcomes :
                   IF outcome = "sent"
                     THEN /\ sent' = Append(sent, ErrorMessage)
                          /\ Return("exception")
                          /\ UNCHANGED exc
                     ELSE /\ Uncaught("NotifierError", "send_notification")
                          /\ UNCHANGED sent
         ELSE /\ Uncaught("UnboundLocalError", "run")
              /\ UNCHANGED << file, sent >>
    /\ UNCHANGED << connVars, envVars, ids_bound, notified_ids, counterVars,
                    cycleVars, timeVars >>

\* ------------------------------------------------------- specification
Next ==
    \/ Load
    \/ CheckEnv
    \/ EnsureExhausted
    \/ ConnectOk
    \/ ConnectDnsFail
    \/ ConnectError
    \/ AuthStartup
    \/ AuthRetry
    \/ QuietSleep
    \/ StartCycle
    \/ PollRequest
    \/ ItemStep
    \/ Notify
    \/ AddId
    \/ SaveIds
    \/ CycleSleep
    \/ Not200
    \/ GiveUpSave
    \/ GiveUpNotify
    \/ GiveUpExit
    \/ BackoffClose
    \/ BackoffSleep
    \/ BackoffInc
    \/ Interrupt
    \/ HandleException

Spec == Init /\ [][Next]_vars

TypeOK ==
    /\ pc \in BodyPcs \cup { "except_exc", "done" }
    /\ sock \in { "none", "open" }
    /\ reopened \in BOOLEAN
    /\ attempts \in 0..(MAX_RETRIES + 1)
    /\ retries \in 0..MAX_RETRIES
    /\ notified_ids \subseteq Ids
    /\ exc.raised_in \in Sites
    /\ exit_code \in { -1, 0, 1 }
    /\ clock \in TimePoints

\* ================================================================ claims
\* Helpers of the properties below.

\* the listing ids of a list of listings: the part after '@' of each id field
ReturnedIds(it) == [i \in 1..Len(it.elems) |-> it.elems[i][2]]

\* the ids of seq that are not in known, each once, in order of appearance
RECURSIVE NewInOrder(_, _)
NewInOrder(seq, known) ==
    IF seq = << >> THEN << >>
    ELSE IF Head(seq) \in known THEN NewInOrder(Tail(seq), known)
    ELSE << Head(seq) >> \o NewInOrder(Tail(seq), known \cup { Head(seq) })

ListingMessages(ids) == [i \in 1..Len(ids) |-> ListingMessage(ids[i])]

\* the notifications sent since this iteration's poll returned
SentSincePoll == SubSeq(sent, sentAtPoll + 1, Len(sent))

\* the ids for which a listing notification has been sent in this run
NotifiedInRun ==
    { sent[i].id : i \in { j \in 1..Len(sent) : sent[j].kind = "listing" } }

\* this iteration's poll returned a non-empty list of listings
PolledListings == polled /\ items.shape = "list" /\ Len(items.elems) > 0

\* the processing of the poll result is over and no interrupt and no
\* failure of the notifier cut it short
ProcessingOver ==
    \/ pc = "cycle_sleep"
    \/ pc = "done" /\ exit_path = "exception" /\ exc.raised_in = "run"

\* C1: after a successful poll that returned a non-empty list of listings,
\* when the processing of the list is over, the notifications sent since the
\* poll are exactly one listing notification for every returned id that was
\* not in notified_ids, in the order returned, and notified_ids contains
\* every returned id.
C1_NewListingsNotifiedInOrder ==
    (PolledListings /\ ProcessingOver) =>
        /\ SentSincePoll = ListingMessages(NewInOrder(ReturnedIds(items), idsAtPoll))
        /\ Range(ReturnedIds(items)) \subseteq notified_ids

\* C2: after a successful poll that returned only listings whose ids are
\* already in notified_ids, no notification of any kind is sent in the cycle,
\* notified_ids and the file stay as they were, and the loop goes on to the
\* sleep that ends the cycle.
C2_KnownListingSilent ==
    (/\ PolledListings
     /\ Range(ReturnedIds(items)) \subseteq idsAtPoll
     /\ pc # "item_loop"
     /\ exit_path \notin { "interrupt", "uncaught" }) =>
        /\ Len(sent) = sentAtPoll
        /\ notified_ids = idsAtPoll
        /\ file = fileAtPoll
        /\ pc = "cycle_sleep"

\* C3: when a backoff sleep has returned, the seconds asked for were
\* auth_time_delay * 2^attempts with auth_time_delay in [180, 360] drawn in
\* this iteration; the step that follows adds exactly 1 to attempts, and
\* attempts decreases only when a poll returns without raising.
C3_BackoffGrowth ==
    /\ [](pc = "backoff_inc" =>
            /\ auth_time_delay \in AUTH_MIN_TIME..AUTH_MAX_TIME
            /\ lastSleep = Sleep("backoff", auth_time_delay * Pow2(attempts))
            /\ clock >= now + auth_time_delay * Pow2(attempts))
    /\ [][ /\ (pc = "backoff_inc" /\ pc' = "ensure") => attempts' = attempts + 1
           /\ attempts' > attempts => (pc = "backoff_inc" /\ attempts' = attempts + 1)
           /\ attempts' < attempts => (pc = "poll_request" /\ polled') ]_vars

\* C3 witness: the sixth consecutive backoff sleep (n = 5) has returned
C3_Witness ==
    pc = "backoff_inc" /\ attempts = 5 /\ lastSleep.secs = AUTH_MAX_TIME * 32

\* C4: a poll is only issued in an iteration whose start hour is in
\* [8, 22); a quiet-window sleep is only made in an iteration whose start
\* hour is outside it, restarts the iteration, and when begun at 23:00:00
\* asks for nine hours and ends at 08:00:00 of the next day.
C4_NoPollInQuietWindow ==
    /\ (pc = "poll_request" \/ (pc = "ensure" /\ caller = "check_event_availability"))
          => HourOf(now) \in 8..21
    /\ polled => HourOf(now) \in 8..21
    /\ lastSleep.kind = "quiet" =>
          /\ pc \in { "loop_top", "done" }
          /\ HourOf(now) >= 22 \/ HourOf(now) < 8
          /\ ~polled
          /\ (now % DAY_SECONDS = 23 * HOUR_SECONDS) =>
                /\ lastSleep.secs = 9 * HOUR_SECONDS
                /\ clock = (DayOf(now) + 1) * DAY_SECONDS + 8 * HOUR_SECONDS

\* C4 witness: an iteration begun at 23:00:00 has slept and restarted
C4_Witness ==
    /\ pc = "loop_top"
    /\ lastSleep.kind = "quiet"
    /\ now % DAY_SECONDS = 23 * HOUR_SECONDS
    /\ count = 1

\* the classes of the connection-level failures as they leave the code:
\* OSError from the socket layer, and NameError, which line 81 raises while
\* it handles the DNS failure socket.gaierror
ConnectionFailureClasses == { "OSError", "NameError" }

\* C5: no connection-level failure that arises during
\* check_event_availability leaves that call.
C5_ConnectionFailureContained ==
    ~(/\ exc.raised_in = "check_event_availability"
      /\ exc.class \in ConnectionFailureClasses
      /\ pc \in { "except_exc", "done" })

\* C6: load_notified_ids raises nothing, and for an absent or a corrupt file
\* run() reaches the configuration check with an empty notified_ids.
C6_LoadNeverRaises ==
    /\ exc.raised_in # "load_notified_ids"
    /\ pc = "checkenv" => (ids_bound /\ (file.kind # "array" => notified_ids = {}))

\* C8: the process ends with a non-zero status only through the give-up
\* path, and an interrupt ends it with status 0.
C8_ErrorExitOnlyByGiveUp ==
    /\ exit_code = 1 => exit_path = "giveup"
    /\ exc.class = "KeyboardInterrupt" => exit_code = 0

\* C9: when a required environment variable is missing, the run makes no
\* connection attempt, no login, no poll and sends no push notification,
\* and once check_env_variables has raised every missing name is reported.
C9_NoNetworkOnMissingEnv ==
    unset # {} =>
        /\ pc \in { "load", "checkenv", "except_exc", "done" }
        /\ sock = "none"
        /\ token = "None"
        /\ ~polled
        /\ sent = << >>
        /\ exc.raised_in = "check_env_variables" => Range(reported) = unset

\* C10: the in-memory set never loses an id; whenever a notification is
\* about to be sent or a poll is about to start, the persisted file holds
\* exactly the in-memory set; and at most one id has had a listing
\* notification without being in the persisted file.
C10_LedgerGrowsAndPersists ==
    /\ [][notified_ids \subseteq notified_ids']_vars
    /\ []((ids_bound /\ (\/ pc \in { "notify", "poll_request" }
                         \/ pc = "ensure" /\ caller = "check_event_availability"))
            => load_notified_ids(file).value = notified_ids)
    /\ [](Cardinality(NotifiedInRun \ load_notified_ids(file).value) <= 1)

\* C10 witness: two ids have been notified, added and persisted in this run
C10_Witness ==
    /\ pc = "cycle_sleep"
    /\ Len(sent) = 2
    /\ NotifiedInRun = notified_ids
    /\ Cardinality(notified_ids) = 2
    /\ Range(file.elems) = notified_ids

\* ------------------------------------------------------------ ledger alone
\* The ledger functions on their own: a run saves a set x of strings
\* (line 66), and the next run loads the file (lines 159, 56).

LedgerIds == { "A", "B", "C", "D" }

LedgerInit ==
    /\ pc = "ledger_save"
    /\ caller = "-"
    /\ retries = 0
    /\ sock = "none"
    /\ faultyCalls = 0
    /\ reopened = FALSE
    /\ unset = {}
    /\ reported = << >>
    /\ file \in InitialFiles
    /\ ids_bound = TRUE
    /\ notified_ids \in SUBSET LedgerIds
    /\ token = "None"
    /\ count = 0
    /\ attempts = 0
    /\ now = 0
    /\ time_delay = 0
    /\ auth_time_delay = 0
    /\ items = EmptyItems
    /\ idx = 0
    /\ id = "-"
    /\ polled = FALSE
    /\ idsAtPoll = {}
    /\ fileAtPoll = FileAbsent
    /\ sentAtPoll = 0
    /\ clock = 8 * HOUR_SECONDS
    /\ lastSleep = NoSleep
    /\ sent = << >>
    /\ exc = NoException
    /\ exit_code = -1
    /\ exit_path = "running"

\* lines 66-69: save_notified_ids(x) rewrites the file
LedgerSave ==
    /\ pc = "ledger_save"
    /\ file' \in save_notified_ids(notified_ids)
    /\ pc' = "ledger_load"
    /\ UNCHANGED << connVars, envVars, ids_bound, notified_ids, counterVars,
                    cycleVars, timeVars, sent, exc, exitVars >>

\* lines 56-64: load_notified_ids() reads the file back
LedgerLoad ==
    /\ pc = "ledger_load"
    /\ LET r == load_notified_ids(file) IN
         IF r.raises = "none"
         THEN /\ notified_ids' = r.value
              /\ ids_bound' = TRUE
              /\ exc' = exc
         ELSE /\ notified_ids' = {}
              /\ ids_bound' = FALSE
              /\ exc' = Exception(r.raises, "load_notified_ids")
    /\ pc' = "ledger_loaded"
    /\ UNCHANGED << connVars, envVars, file, counterVars, cycleVars, timeVars,
                    sent, exitVars >>

LedgerNext == LedgerSave \/ LedgerLoad

LedgerSpec == LedgerInit /\ [][LedgerNext]_vars

C11_LedgerFlushedAtExit ==
    pc = "done" =>
        /\ ids_bound
        /\ file \in save_notified_ids(notified_ids)
        /\ exit_path = "interrupt" => sock = "none"

\* the positions of one backoff-and-re-authenticate round
BackoffPcs == { "backoff_close", "backoff_sleep", "backoff_inc" }

GiveUpPcs == { "giveup_save", "giveup_notify", "giveup_exit" }

\* C12: at most MAX_RETRIES = 5 backoff-and-re-authenticate rounds happen in
\* a row: a round is only begun when fewer than five rounds were completed
\* since the last successful poll, and the give-up path is entered with
\* five completed rounds at most.
C12_GiveUpAfterFiveFailures ==
    /\ pc \in BackoffPcs => attempts < MAX_RETRIES
    /\ pc \in GiveUpPcs => attempts <= MAX_RETRIES

\* the first 08:00:00 that follows the instant t of the quiet window
FirstEightAfter(t) ==
    IF HourOf(t) < QUIET_END_HOUR
      THEN DayOf(t) * DAY_SECONDS + QUIET_END_HOUR * HOUR_SECONDS
      ELSE (DayOf(t) + 1) * DAY_SECONDS + QUIET_END_HOUR * HOUR_SECONDS

\* C13: a quiet-window sleep ends at the first 08:00:00 that follows the
\* start of the iteration and asks for ten hours at most.
C13_QuietSleepEndsAtNextEight ==
    lastSleep.kind = "quiet" =>
        /\ lastSleep.secs <= 10 * HOUR_SECONDS
        /\ now + lastSleep.secs = FirstEightAfter(now)
        /\ clock = FirstEightAfter(now)

\* C15: _ensure_connection lets no exception out; the sleep that follows
\* its failed attempt number i (i = 0, 1, ...) asks for BASE_DELAY * 2^i
\* seconds; and when its attempts are used up it returns with no open
\* connection.
C15_EnsureConnectionRetries ==
    /\ ~(pc = "except_exc" /\ caller # "-")
    /\ lastSleep.kind = "connect" =>
          lastSleep.secs = BASE_DELAY * Pow2(retries - 1)
    /\ (pc = "ensure" /\ ~(retries < MAX_RETRIES)) => sock = "none"

\* C17: a 200 response whose responseData is null or absent raises nothing
\* in check_event_availability: no TypeError leaves it.
C17_NullResponseDataIsEmpty ==
    ~(exc.class = "TypeError" /\ exc.raised_in = "check_event_availability")

\* C18: the only failure of the notifier that reaches the outer handler of
\* run() is that of the give-up notification; one raised while a new
\* listing is notified in a poll cycle does not.
C18_NotifierFailureKeepsLoop ==
    (pc = "except_exc" /\ exc.class = "NotifierError") => items = NullItems

\* C19: attempts is 0 in the iteration that follows a quiet-window sleep.
C19_AttemptsResetByQuietSleep ==
    lastSleep.kind = "quiet" => attempts = 0

\* a poll is being issued: check_event_availability is running
AtPoll ==
    \/ pc = "poll_request"
    \/ pc = "ensure" /\ caller = "check_event_availability"

\* C14: a poll is only issued with a token in hand; after a non-200
\* failure that does not give up, the steps are, in this order, close the
\* connection, sleep the backoff, add 1 to attempts, authenticate; the loop
\* is only re-entered when authenticate returned a token (at startup too),
\* and once an exception has reached the outer handler nothing but the end
\* of run() follows.
C14_ReauthBeforeNextPoll ==
    /\ [](AtPoll => token # "None")
    /\ [][ /\ pc = "not200" => pc' \in { "giveup_save", "backoff_close", "done" }
           /\ pc = "backoff_close" =>
                \/ pc' = "backoff_sleep" /\ sock' = "none"
                \/ pc' = "done"
           /\ pc = "backoff_sleep" =>
                \/ pc' = "backoff_inc" /\ lastSleep'.kind = "backoff"
                \/ pc' = "done"
           /\ pc = "backoff_inc" =>
                \/ /\ pc' = "ensure"
                   /\ caller' = "authenticate_retry"
                   /\ attempts' = attempts + 1
                \/ pc' = "done"
           /\ (pc = "ensure" /\ caller = "authenticate_retry") =>
                pc' \in { "ensure", "auth_retry", "except_exc", "done" }
           /\ pc \in { "auth_retry", "auth_startup" } =>
                \/ pc' = "loop_top" /\ token' # "None"
                \/ pc' \in { "except_exc", "done" }
           /\ AtPoll' => (AtPoll \/ pc = "loop_top")
           /\ pc \in { "except_exc", "done" } => pc' = "done" ]_vars

\* C14 witness: a poll is issued after a failure was handled and the
\* re-authentication returned a token
C14_Witness ==
    /\ pc = "poll_request"
    /\ attempts >= 1
    /\ token # "None"
    /\ sock = "open"

\* C16: as long as no connect() has failed in the run, connect() is never
\* executed while the connection is open: _ensure_connection opens a
\* connection only when there is none, so across successful cycles no open
\* socket is replaced by a new one.
C16_OpenConnectionReused ==
    faultyCalls = 0 => ~reopened

\* ------------------------------------------------- persistent failure
\* The run in which, once the first poll of the day is over, every poll
\* returns a non-200 status, every login succeeds, no connect() fails and
\* nobody interrupts; every step that can be taken is taken eventually, so
\* every sleep ends.
FailingInit ==
    /\ Init
    /\ clock = QUIET_END_HOUR * HOUR_SECONDS
    /\ unset = {}
    /\ file.kind # "scalar"

FailingNext ==
    \/ Load
    \/ CheckEnv
    \/ ConnectOk
    \/ AuthStartup /\ pc' = "loop_top"
    \/ QuietSleep
    \/ StartCycle
    \/ /\ PollRequest
       /\ \/ pc' = "not200"
          \/ clock = QUIET_END_HOUR * HOUR_SECONDS /\ pc' = "cycle_sleep"
    \/ CycleSleep
    \/ Not200
    \/ BackoffClose
    \/ BackoffSleep
    \/ BackoffInc
    \/ AuthRetry /\ pc' = "loop_top"
    \/ GiveUpSave
    \/ GiveUpNotify
    \/ GiveUpExit
    \/ HandleException

FailingSpec == FailingInit /\ [][FailingNext]_vars /\ WF_vars(FailingNext)

\* C20: when every poll returns a non-200 status and every
\* re-authentication succeeds, attempts never passes MAX_RETRIES + 1 and the
\* process eventually ends on the give-up path: with the exit of line 208,
\* or, when the give-up notification itself fails, through the handler of
\* that failure.
C20_PersistentFailureGivesUp ==
    /\ [](attempts <= MAX_RETRIES + 1)
    /\ <>(/\ pc = "done"
          /\ attempts = MAX_RETRIES + 1
          /\ exit_path = "giveup" \/ exc.class = "NotifierError")

\* C20 witness: the process has ended with the exit of the give-up path
\* after the give-up notification
C20_Witness ==
    /\ pc = "done"
    /\ exit_path = "giveup"
    /\ exit_code = 1
    /\ attempts = MAX_RETRIES + 1
    /\ Len(sent) > 0
    /\ sent[Len(sent)] = GiveUpMessage

====
